---- MODULE Spec2Model ----
(***************************************************************************)
(* Receipt normalisation of near-indexer-for-explorer                      *)
(* (src/models/receipts.rs): a receipt view is decomposed into the rows of *)
(* six tables.  The conversions of the file are operators; the pipeline    *)
(* that applies them to the receipts of a block is the state machine.      *)
(***************************************************************************)
EXTENDS Integers, Sequences, FiniteSets, TLC

(***************************************************************************)
(* Bounds of the model.                                                    *)
(***************************************************************************)
\* longest action list of a generated Action receipt
MaxActions == 2
\* longest output_data_receivers / input_data_ids list of a generated receipt
MaxEdges == 2
\* receipts of one batch handled concurrently
NumReceipts == 2
\* how often one receipt is run through the transformation
MaxRuns == 2
\* direct calls of the public row builders
MaxCalls == 2

(***************************************************************************)
(* Machine integers.  u64 and u128 are little-endian sequences of 16-bit   *)
(* limbs, so that every intermediate value fits a model integer and the    *)
(* full 128-bit range is represented exactly.                              *)
(***************************************************************************)
LimbBase == 65536
U64Limbs == 4
U128Limbs == 8

ZeroLimbs(n) == [i \in 1..n |-> 0]
MaxLimbs(n) == [i \in 1..n |-> LimbBase - 1]
IsZero(v) == \A i \in 1..Len(v) : v[i] = 0

\* a small value n < LimbBase as an integer of w limbs
Small(n, w) == [i \in 1..w |-> IF i = 1 THEN n ELSE 0]

\* u64 -> u128 (lossless widening)
Widen(n) == n \o ZeroLimbs(U128Limbs - Len(n))

\* Long division by ten, most significant limb first: the quotient's limbs
\* 1..i and the remainder, given the remainder r carried into limb i.
RECURSIVE DivRem10(_, _, _)
DivRem10(v, i, r) ==
    IF i = 0 THEN [q |-> <<>>, r |-> r]
    ELSE LET cur  == r * LimbBase + v[i]
             rest == DivRem10(v, i - 1, cur % 10)
         IN  [q |-> Append(rest.q, cur \div 10), r |-> rest.r]

DigitChars == <<"0", "1", "2", "3", "4", "5", "6", "7", "8", "9">>

RECURSIVE DecimalDigits(_)
DecimalDigits(v) ==
    IF IsZero(v) THEN ""
    ELSE LET d == DivRem10(v, Len(v), 0)
         IN  DecimalDigits(d.q) \o DigitChars[d.r + 1]

\* u128::to_string(): the decimal expansion, no sign, no leading zeros
u128_to_string(v) == IF IsZero(v) THEN "0" ELSE DecimalDigits(v)

\* u128::to_u64(): Some(n) when the value fits 64 bits
u128_to_u64(v) ==
    IF \A i \in (U64Limbs + 1)..U128Limbs : v[i] = 0
    THEN [some |-> TRUE, v |-> SubSeq(v, 1, U64Limbs)]
    ELSE [some |-> FALSE]

(***************************************************************************)
(* BigDecimal: an arbitrary-precision integer (normalised: no high zero    *)
(* limbs) and a scale.                                                     *)
(***************************************************************************)
RECURSIVE Normalize(_)
Normalize(v) ==
    IF v = <<>> THEN <<>>
    ELSE IF v[Len(v)] = 0 THEN Normalize(SubSeq(v, 1, Len(v) - 1))
    ELSE v

BigDecimal(v) == [int_val |-> Normalize(v), scale |-> 0]

\* block_height.into(): From<u64> for BigDecimal
BigDecimal_from_u64(n) == BigDecimal(n)

\* 0.into()
BigDecimal_zero == BigDecimal(<<>>)

(***************************************************************************)
(* serde_json values.                                                      *)
(***************************************************************************)
JsonString(s) == [type |-> "String", v |-> s]
JsonNumber(n) == [type |-> "Number", v |-> n]
JsonObject(f) == [type |-> "Object", v |-> f]

\* Serialize for AccessKeyView
AccessKeyJson(k) ==
    JsonObject([nonce |-> JsonNumber(k.nonce), permission |-> JsonString(k.permission)])

VARIABLES
    from_u128_impl,   \* which FromPrimitive::from_u128 the build links for BigDecimal
    block_height,     \* the block height handed to Receipt::from_receipt_view
    batch,            \* slot -> the receipt view to transform
    pc,               \* slot -> where the slot's transformation stands
    out,              \* slot -> the rows built for the slot in the current run
    runs,             \* slot -> the number of the current run
    prev,             \* slot -> the rows of the run before, as sets
    calls             \* direct calls of the row builders: arguments and row

vars == <<from_u128_impl, block_height, batch, pc, out, runs, prev, calls>>


(***************************************************************************)
(* Result and Option values.                                               *)
(***************************************************************************)
Ok(row) == [ok |-> TRUE, row |-> row]
Err(e) == [ok |-> FALSE, err |-> e]
Some(x) == [some |-> TRUE, v |-> x]
None == [some |-> FALSE]

\* BigDecimal::from_u128 through FromPrimitive.  A build whose BigDecimal does
\* not override from_u128 gets the trait's default, n.to_u64().and_then(from_u64);
\* a build whose BigDecimal overrides it converts every value.
BigDecimal_from_u128(n) ==
    IF from_u128_impl = "native" THEN Some(BigDecimal(n))
    ELSE LET small == u128_to_u64(n)
         IN  IF small.some THEN Some(BigDecimal_from_u64(small.v)) ELSE None

(***************************************************************************)
(* Receipt::from_receipt_view                                              *)
(***************************************************************************)
Receipt_from_receipt_view(receipt, height) ==
    [receipt_id     |-> receipt.receipt_id,
     block_height   |-> BigDecimal_from_u64(height),
     predecessor_id |-> receipt.predecessor_id,
     receiver_id    |-> receipt.receiver_id,
     receipt_kind   |-> CASE receipt.receipt.tag = "Action" -> "Action"
                          [] receipt.receipt.tag = "Data"   -> "Data"]

(***************************************************************************)
(* impl TryFrom<&ReceiptView> for ReceiptData                              *)
(***************************************************************************)
\* a variant without the kind guard: a row for every receipt
ReceiptData_try_from_NoGuard(receipt_view) ==
    IF receipt_view.receipt.tag = "Data"
    THEN Ok([receipt_id |-> receipt_view.receipt_id,
             data_id    |-> receipt_view.receipt.data_id,
             data       |-> receipt_view.receipt.data])
    ELSE Ok([receipt_id |-> receipt_view.receipt_id,
             data_id    |-> receipt_view.receipt_id,
             data       |-> None])

\* a variant that stores an empty payload as an absent one
ReceiptData_try_from_EmptyAsAbsent(receipt_view) ==
    IF receipt_view.receipt.tag = "Data"
    THEN Ok([receipt_id |-> receipt_view.receipt_id,
             data_id    |-> receipt_view.receipt.data_id,
             data       |-> IF receipt_view.receipt.data.some
                               /\ receipt_view.receipt.data.v # <<>>
                            THEN receipt_view.receipt.data ELSE None])
    ELSE Err("Given ReceiptView is not Data type")

ReceiptData_try_from(receipt_view) ==
    IF receipt_view.receipt.tag = "Data"
    THEN Ok([receipt_id |-> receipt_view.receipt_id,
             data_id    |-> receipt_view.receipt.data_id,
             data       |-> receipt_view.receipt.data])
    ELSE Err("Given ReceiptView is not Data type")

(***************************************************************************)
(* impl TryFrom<&ReceiptView> for ReceiptAction                            *)
(***************************************************************************)
\* a variant that converts the gas price through a 64-bit value
ReceiptAction_try_from_Truncating(receipt_view) ==
    IF receipt_view.receipt.tag = "Action"
    THEN Ok([receipt_id        |-> receipt_view.receipt_id,
             signer_id         |-> receipt_view.receipt.signer_id,
             signer_public_key |-> receipt_view.receipt.signer_public_key,
             gas_price         |->
                 BigDecimal_from_u64(SubSeq(receipt_view.receipt.gas_price, 1, U64Limbs))])
    ELSE Err("Given ReceiptView is not Action type")

ReceiptAction_try_from(receipt_view) ==
    IF receipt_view.receipt.tag = "Action"
    THEN LET converted == BigDecimal_from_u128(receipt_view.receipt.gas_price)
         IN  Ok([receipt_id        |-> receipt_view.receipt_id,
                 signer_id         |-> receipt_view.receipt.signer_id,
                 signer_public_key |-> receipt_view.receipt.signer_public_key,
                 gas_price         |-> IF converted.some THEN converted.v
                                       ELSE BigDecimal_zero])
    ELSE Err("Given ReceiptView is not Action type")

(***************************************************************************)
(* ReceiptActionAction::from_action_view                                   *)
(***************************************************************************)
\* the (action_kind, args) pair of the match
ActionKindAndArgs(action_view) ==
    CASE action_view.tag = "CreateAccount" ->
           [action_kind |-> "CreateAccount", args |-> JsonObject(<<>>)]
      [] action_view.tag = "DeployContract" ->
           [action_kind |-> "DeployContract",
            args |-> JsonObject([code |-> JsonString(action_view.code)])]
      [] action_view.tag = "FunctionCall" ->
           [action_kind |-> "FunctionCall",
            args |-> JsonObject([method_name |-> JsonString(action_view.method_name),
                                 args        |-> JsonString(action_view.args),
                                 gas         |-> JsonNumber(action_view.gas),
                                 deposit     |-> JsonString(u128_to_string(action_view.deposit))])]
      [] action_view.tag = "Transfer" ->
           [action_kind |-> "Transfer",
            args |-> JsonObject([deposit |-> JsonString(u128_to_string(action_view.deposit))])]
      [] action_view.tag = "Stake" ->
           [action_kind |-> "Stake",
            args |-> JsonObject([stake      |-> JsonString(u128_to_string(action_view.stake)),
                                 public_key |-> JsonString(action_view.public_key)])]
      [] action_view.tag = "AddKey" ->
           [action_kind |-> "AddKey",
            args |-> JsonObject([public_key |-> JsonString(action_view.public_key),
                                 access_key |-> AccessKeyJson(action_view.access_key)])]
      [] action_view.tag = "DeleteKey" ->
           [action_kind |-> "DeleteKey",
            args |-> JsonObject([public_key |-> JsonString(action_view.public_key)])]
      [] action_view.tag = "DeleteAccount" ->
           [action_kind |-> "DeleteAccount",
            args |-> JsonObject([beneficiary_id |-> JsonString(action_view.beneficiary_id)])]

\* the places <<slot, position>> of the ReceiptActionAction rows built so far
ActionRowsBuilt ==
    UNION {{<<s, j>> : j \in 1..Len(out[s].receipt_action_actions)} : s \in DOMAIN out}

\* those of them that carry receipt_id
RowsBuiltFor(receipt_id) ==
    {p \in ActionRowsBuilt :
        out[p[1]].receipt_action_actions[p[2]].receipt_id = receipt_id}

\* a variant that numbers a row by the rows of the receipt built before it
ReceiptActionAction_from_action_view_CompletionOrder(receipt_id, index, action_view) ==
    [receipt_id  |-> receipt_id,
     index       |-> Cardinality(RowsBuiltFor(receipt_id)),
     args        |-> ActionKindAndArgs(action_view).args,
     action_kind |-> ActionKindAndArgs(action_view).action_kind]

\* a variant that numbers a row by a counter all transformations share
ReceiptActionAction_from_action_view_SharedCounter(receipt_id, index, action_view) ==
    [receipt_id  |-> receipt_id,
     index       |-> Cardinality(ActionRowsBuilt),
     args        |-> ActionKindAndArgs(action_view).args,
     action_kind |-> ActionKindAndArgs(action_view).action_kind]

\* a variant that numbers the rows from one
ReceiptActionAction_from_action_view_OneBased(receipt_id, index, action_view) ==
    [receipt_id  |-> receipt_id,
     index       |-> index + 1,
     args        |-> ActionKindAndArgs(action_view).args,
     action_kind |-> ActionKindAndArgs(action_view).action_kind]

\* a variant that hands the deposit of a Transfer to json! as a number
ReceiptActionAction_from_action_view_AmountAsNumber(receipt_id, index, action_view) ==
    [receipt_id  |-> receipt_id,
     index       |-> index,
     args        |->
        IF action_view.tag = "Transfer"
        THEN JsonObject([deposit |-> JsonNumber(action_view.deposit)])
        ELSE ActionKindAndArgs(action_view).args,
     action_kind |-> ActionKindAndArgs(action_view).action_kind]

\* a variant whose AddKey arm leaves out the access key
ReceiptActionAction_from_action_view_AddKeyWithoutAccessKey(receipt_id, index, action_view) ==
    [receipt_id  |-> receipt_id,
     index       |-> index,
     args        |->
        IF action_view.tag = "AddKey"
        THEN JsonObject([public_key |-> JsonString(action_view.public_key)])
        ELSE ActionKindAndArgs(action_view).args,
     action_kind |-> ActionKindAndArgs(action_view).action_kind]

ReceiptActionAction_from_action_view(receipt_id, index, action_view) ==
    [receipt_id  |-> receipt_id,
     index       |-> index,
     args        |-> ActionKindAndArgs(action_view).args,
     action_kind |-> ActionKindAndArgs(action_view).action_kind]

(***************************************************************************)
(* ReceiptActionInputData::from_data_id                                    *)
(***************************************************************************)
\* a variant with the two arguments exchanged
ReceiptActionInputData_from_data_id_Exchanged(receipt_id, data_id) ==
    [receipt_id |-> data_id, data_id |-> receipt_id]

ReceiptActionInputData_from_data_id(receipt_id, data_id) ==
    [receipt_id |-> receipt_id, data_id |-> data_id]

(***************************************************************************)
(* ReceiptActionOutputData::from_data_receiver                             *)
(***************************************************************************)
\* a variant that stores the receipt's id as the data id
ReceiptActionOutputData_from_data_receiver_OwnId(receipt_id, data_receiver) ==
    [receipt_id  |-> receipt_id,
     data_id     |-> receipt_id,
     receiver_id |-> data_receiver.receiver_id]

ReceiptActionOutputData_from_data_receiver(receipt_id, data_receiver) ==
    [receipt_id  |-> receipt_id,
     data_id     |-> data_receiver.data_id,
     receiver_id |-> data_receiver.receiver_id]

(***************************************************************************)
(* Receipt views handed to the transformation.                             *)
(***************************************************************************)
\* the bytes of a CryptoHash (two bytes stand for the thirty-two)
CryptoHash(n) == <<n, 255 - n>>

PublicKeySample == "ed25519:6E8sCci9badyRkXb3JoRpBj5p8C6Tw41ELDZoiihKEtp"

\* 0, 1, 10^24, 2^64 - 1, 2^64, 2^128 - 1
U128Samples ==
    {ZeroLimbs(U128Limbs),
     Small(1, U128Limbs),
     <<0, 41216, 52461, 7118, 54210, 0, 0, 0>>,
     Widen(MaxLimbs(U64Limbs)),
     <<0, 0, 0, 0, 1, 0, 0, 0>>,
     MaxLimbs(U128Limbs)}

\* 10^0 .. 10^38, the values where the decimal expansion grows by a digit
PowersOfTen ==
    {<<1, 0, 0, 0, 0, 0, 0, 0>>,
     <<10, 0, 0, 0, 0, 0, 0, 0>>,
     <<100, 0, 0, 0, 0, 0, 0, 0>>,
     <<1000, 0, 0, 0, 0, 0, 0, 0>>,
     <<10000, 0, 0, 0, 0, 0, 0, 0>>,
     <<34464, 1, 0, 0, 0, 0, 0, 0>>,
     <<16960, 15, 0, 0, 0, 0, 0, 0>>,
     <<38528, 152, 0, 0, 0, 0, 0, 0>>,
     <<57600, 1525, 0, 0, 0, 0, 0, 0>>,
     <<51712, 15258, 0, 0, 0, 0, 0, 0>>,
     <<58368, 21515, 2, 0, 0, 0, 0, 0>>,
     <<59392, 18550, 23, 0, 0, 0, 0, 0>>,
     <<4096, 54437, 232, 0, 0, 0, 0, 0>>,
     <<40960, 20082, 2328, 0, 0, 0, 0, 0>>,
     <<16384, 4218, 23283, 0, 0, 0, 0, 0>>,
     <<32768, 42182, 36222, 3, 0, 0, 0, 0>>,
     <<0, 28609, 34546, 35, 0, 0, 0, 0>>,
     <<0, 23946, 17784, 355, 0, 0, 0, 0>>,
     <<0, 42852, 46771, 3552, 0, 0, 0, 0>>,
     <<0, 35304, 8964, 35527, 0, 0, 0, 0>>,
     <<0, 25360, 24109, 27591, 5, 0, 0, 0>>,
     <<0, 56992, 44485, 13769, 54, 0, 0, 0>>,
     <<0, 45632, 51642, 6624, 542, 0, 0, 0>>,
     <<0, 63104, 57674, 711, 5421, 0, 0, 0>>,
     <<0, 41216, 52461, 7118, 54210, 0, 0, 0>>,
     <<0, 18944, 328, 5652, 17813, 8, 0, 0>>,
     <<0, 58368, 3282, 56520, 47058, 82, 0, 0>>,
     <<0, 59392, 32828, 40912, 11836, 827, 0, 0>>,
     <<0, 4096, 609, 15909, 52830, 8271, 0, 0>>,
     <<0, 40960, 6090, 28018, 4014, 17182, 1, 0>>,
     <<0, 16384, 60906, 18036, 40144, 40748, 12, 0>>,
     <<0, 32768, 19238, 49297, 8226, 14270, 126, 0>>,
     <<0, 0, 61313, 34220, 16731, 11629, 1262, 0>>,
     <<0, 0, 23306, 14529, 36243, 50756, 12621, 0>>,
     <<0, 0, 36452, 14221, 34752, 48813, 60681, 1>>,
     <<0, 0, 36840, 11143, 19842, 29383, 16993, 19>>,
     <<0, 0, 40720, 45899, 1813, 31689, 38862, 192>>,
     <<0, 0, 13984, 244, 18137, 54746, 60944, 1925>>,
     <<0, 0, 8768, 2442, 50298, 23174, 19624, 19259>>}

\* every value whose limbs are all zeros or all ones, and the powers of ten:
\* the values where a decimal expansion changes length or carries
U128Wide ==
    {v \in [1..U128Limbs -> {0, LimbBase - 1}] : TRUE}
        \cup PowersOfTen

\* 300000000000000 and 2^64 - 1
GasSamples == {<<49152, 12654, 4313, 1>>, MaxLimbs(U64Limbs)}

\* 0, 9820210 and 2^64 - 1
HeightSamples == {ZeroLimbs(U64Limbs), <<55346, 149, 0, 0>>, MaxLimbs(U64Limbs)}

AccessKeySample == [nonce |-> Small(7, U64Limbs), permission |-> "FullAccess"]

\* the eight variants of ActionView
CreateAccount == [tag |-> "CreateAccount"]
DeployContract(code) == [tag |-> "DeployContract", code |-> code]
FunctionCall(method_name, args, gas, deposit) ==
    [tag |-> "FunctionCall", method_name |-> method_name, args |-> args,
     gas |-> gas, deposit |-> deposit]
Transfer(deposit) == [tag |-> "Transfer", deposit |-> deposit]
Stake(stake, public_key) == [tag |-> "Stake", stake |-> stake, public_key |-> public_key]
AddKey(public_key, access_key) ==
    [tag |-> "AddKey", public_key |-> public_key, access_key |-> access_key]
DeleteKey(public_key) == [tag |-> "DeleteKey", public_key |-> public_key]
DeleteAccount(beneficiary_id) == [tag |-> "DeleteAccount", beneficiary_id |-> beneficiary_id]

ActionTags ==
    {"CreateAccount", "DeployContract", "FunctionCall", "Transfer", "Stake",
     "AddKey", "DeleteKey", "DeleteAccount"}

\* one action of every variant, and a Transfer of 2^128 - 1
ActionSamples ==
    {CreateAccount,
     DeployContract("AGFzbQEAAAA="),
     FunctionCall("ft_transfer", "e30=", <<49152, 12654, 4313, 1>>, Small(1, U128Limbs)),
     Transfer(MaxLimbs(U128Limbs)),
     Stake(<<0, 0, 0, 0, 1, 0, 0, 0>>, PublicKeySample),
     AddKey(PublicKeySample, AccessKeySample),
     DeleteKey(PublicKeySample),
     DeleteAccount("bob.near")}

DataReceiverSamples ==
    {[data_id |-> CryptoHash(10), receiver_id |-> "alice.near"],
     [data_id |-> CryptoHash(11), receiver_id |-> "bob.near"],
     [data_id |-> CryptoHash(10), receiver_id |-> "bob.near"]}

DataIdSamples == {CryptoHash(10), CryptoHash(11)}

PayloadSamples == {None, Some(<<>>), Some(<<0>>), Some(<<7, 255>>)}

SeqsUpTo(S, n) == UNION {[1..k -> S] : k \in 0..n}

DataBody(data_id, data) == [tag |-> "Data", data_id |-> data_id, data |-> data]

ActionBody(gas_price, actions, output_data_receivers, input_data_ids) ==
    [tag                   |-> "Action",
     signer_id             |-> "alice.near",
     signer_public_key     |-> PublicKeySample,
     gas_price             |-> gas_price,
     actions               |-> actions,
     output_data_receivers |-> output_data_receivers,
     input_data_ids        |-> input_data_ids]

ReceiptView(n, body) ==
    [receipt_id     |-> CryptoHash(n),
     predecessor_id |-> "alice.near",
     receiver_id    |-> "bob.near",
     receipt        |-> body]

DataBodies == {DataBody(d, p) : d \in DataIdSamples, p \in PayloadSamples}

GasPriceBodies ==
    {ActionBody(g, <<Transfer(Small(1, U128Limbs))>>, <<>>, <<>>) : g \in U128Samples}

ActionListBodies ==
    {ActionBody(Small(1, U128Limbs), l, <<>>, <<>>) : l \in SeqsUpTo(ActionSamples, MaxActions)}

AmountBodies ==
    {ActionBody(Small(1, U128Limbs), <<Transfer(v)>>, <<>>, <<>>) : v \in U128Wide}
        \cup {ActionBody(Small(1, U128Limbs), <<Stake(v, PublicKeySample)>>, <<>>, <<>>) :
                 v \in U128Samples}
        \cup {ActionBody(Small(1, U128Limbs),
                         <<FunctionCall("ft_transfer", "e30=", g, v)>>, <<>>, <<>>) :
                 g \in GasSamples, v \in U128Samples}

EdgeBodies ==
    {ActionBody(Small(1, U128Limbs), <<CreateAccount>>, o, i) :
        o \in SeqsUpTo(DataReceiverSamples, MaxEdges),
        i \in SeqsUpTo(DataIdSamples, MaxEdges)}

\* the inputs of one transformation: a body, a block height, a build
Inputs ==
    {[body |-> b, height |-> h, impl |-> m] :
        b \in DataBodies \cup GasPriceBodies,
        h \in HeightSamples,
        m \in {"default", "native"}}
    \cup
    {[body |-> b, height |-> <<55346, 149, 0, 0>>, impl |-> "default"] :
        b \in ActionListBodies \cup AmountBodies \cup EdgeBodies}

\* the bodies of a batch handled concurrently
BatchBodies ==
    {DataBody(CryptoHash(10), Some(<<7, 255>>)),
     ActionBody(<<0, 0, 0, 0, 1, 0, 0, 0>>,
                <<Transfer(Small(1, U128Limbs)), DeleteKey(PublicKeySample)>>,
                <<[data_id |-> CryptoHash(10), receiver_id |-> "bob.near"]>>,
                <<CryptoHash(11)>>),
     ActionBody(Small(1, U128Limbs), <<CreateAccount, DeleteAccount("bob.near")>>,
                <<>>, <<>>)}

(***************************************************************************)
(* The pipeline: each slot's receipt goes through the receipt row, the two *)
(* kind-guarded extractions and, for the Action kind, the per-action rows  *)
(* (in any order of completion) and the edge rows.                         *)
(***************************************************************************)
EmptyOut ==
    [receipts                   |-> <<>>,
     receipt_data               |-> <<>>,
     receipt_actions            |-> <<>>,
     receipt_action_actions     |-> <<>>,
     receipt_action_output_data |-> <<>>,
     receipt_action_input_data  |-> <<>>,
     data_result                |-> None,
     action_result              |-> None,
     encoded                    |-> {}]

Range(f) == {f[i] : i \in DOMAIN f}

\* the rows of a finished run: the action rows as a set (their order of
\* completion is not part of the output), the outcomes of the extractions
Rows(o) ==
    [receipts                   |-> o.receipts,
     receipt_data               |-> o.receipt_data,
     receipt_actions            |-> o.receipt_actions,
     receipt_action_actions     |-> Range(o.receipt_action_actions),
     receipt_action_output_data |-> o.receipt_action_output_data,
     receipt_action_input_data  |-> o.receipt_action_input_data,
     data_result                |-> o.data_result,
     action_result              |-> o.action_result]

Slots == DOMAIN batch

PipelineInit(n) ==
    /\ pc = [s \in 1..n |-> "receipt"]
    /\ out = [s \in 1..n |-> EmptyOut]
    /\ runs = [s \in 1..n |-> 1]
    /\ prev = [s \in 1..n |-> None]
    /\ calls = <<>>

Init ==
    /\ \E i \in Inputs :
          /\ batch = [s \in {1} |-> ReceiptView(1, i.body)]
          /\ block_height = i.height
          /\ from_u128_impl = i.impl
    /\ PipelineInit(1)

InitBatch ==
    /\ \E b \in [1..NumReceipts -> BatchBodies] :
          batch = [s \in 1..NumReceipts |-> ReceiptView(s, b[s])]
    /\ block_height = <<55346, 149, 0, 0>>
    /\ from_u128_impl \in {"default", "native"}
    /\ PipelineInit(NumReceipts)

InitCalls ==
    /\ \E b \in BatchBodies : batch = [s \in {1} |-> ReceiptView(1, b)]
    /\ block_height = <<55346, 149, 0, 0>>
    /\ from_u128_impl \in {"default", "native"}
    /\ PipelineInit(1)

Classified(s) == out[s].receipts[1].receipt_kind

\* the positions of the slot's action list (none for a Data receipt)
ActionPositions(s) ==
    IF batch[s].receipt.tag = "Action" THEN DOMAIN batch[s].receipt.actions ELSE {}

BuildReceipt(s) ==
    /\ pc[s] = "receipt"
    /\ out' = [out EXCEPT ![s].receipts =
                  Append(@, Receipt_from_receipt_view(batch[s], block_height))]
    /\ pc' = [pc EXCEPT ![s] = "data"]
    /\ UNCHANGED <<from_u128_impl, block_height, batch, runs, prev, calls>>

ExtractData(s) ==
    /\ pc[s] = "data"
    /\ LET r == ReceiptData_try_from(batch[s])
       IN  out' = [out EXCEPT ![s].data_result = Some(r),
                              ![s].receipt_data = IF r.ok THEN Append(@, r.row) ELSE @]
    /\ pc' = [pc EXCEPT ![s] = "action"]
    /\ UNCHANGED <<from_u128_impl, block_height, batch, runs, prev, calls>>

ExtractAction(s) ==
    /\ pc[s] = "action"
    /\ LET r == ReceiptAction_try_from(batch[s])
       IN  out' = [out EXCEPT ![s].action_result = Some(r),
                              ![s].receipt_actions = IF r.ok THEN Append(@, r.row) ELSE @]
    /\ pc' = [pc EXCEPT ![s] = IF Classified(s) = "Action" THEN "actions" ELSE "done"]
    /\ UNCHANGED <<from_u128_impl, block_height, batch, runs, prev, calls>>

\* the action at position i (from one) gets index i - 1, whenever it is encoded
EncodeAction(s, i) ==
    /\ pc[s] = "actions"
    /\ i \in ActionPositions(s)
    /\ i \notin out[s].encoded
    /\ out' = [out EXCEPT
                  ![s].receipt_action_actions =
                      Append(@, ReceiptActionAction_from_action_view(
                                    batch[s].receipt_id, i - 1, batch[s].receipt.actions[i])),
                  ![s].encoded = @ \cup {i}]
    /\ UNCHANGED <<from_u128_impl, block_height, batch, pc, runs, prev, calls>>

ActionsEncoded(s) ==
    /\ pc[s] = "actions"
    /\ out[s].encoded = DOMAIN batch[s].receipt.actions
    /\ pc' = [pc EXCEPT ![s] = "outputs"]
    /\ UNCHANGED <<from_u128_impl, block_height, batch, out, runs, prev, calls>>

BuildOutputEdge(s) ==
    /\ pc[s] = "outputs"
    /\ Len(out[s].receipt_action_output_data) < Len(batch[s].receipt.output_data_receivers)
    /\ LET j == Len(out[s].receipt_action_output_data) + 1
       IN  out' = [out EXCEPT ![s].receipt_action_output_data =
                      Append(@, ReceiptActionOutputData_from_data_receiver(
                                    batch[s].receipt_id,
                                    batch[s].receipt.output_data_receivers[j]))]
    /\ UNCHANGED <<from_u128_impl, block_height, batch, pc, runs, prev, calls>>

OutputEdgesBuilt(s) ==
    /\ pc[s] = "outputs"
    /\ Len(out[s].receipt_action_output_data) = Len(batch[s].receipt.output_data_receivers)
    /\ pc' = [pc EXCEPT ![s] = "inputs"]
    /\ UNCHANGED <<from_u128_impl, block_height, batch, out, runs, prev, calls>>

BuildInputEdge(s) ==
    /\ pc[s] = "inputs"
    /\ Len(out[s].receipt_action_input_data) < Len(batch[s].receipt.input_data_ids)
    /\ LET j == Len(out[s].receipt_action_input_data) + 1
       IN  out' = [out EXCEPT ![s].receipt_action_input_data =
                      Append(@, ReceiptActionInputData_from_data_id(
                                    batch[s].receipt_id,
                                    batch[s].receipt.input_data_ids[j]))]
    /\ UNCHANGED <<from_u128_impl, block_height, batch, pc, runs, prev, calls>>

InputEdgesBuilt(s) ==
    /\ pc[s] = "inputs"
    /\ Len(out[s].receipt_action_input_data) = Len(batch[s].receipt.input_data_ids)
    /\ pc' = [pc EXCEPT ![s] = "done"]
    /\ UNCHANGED <<from_u128_impl, block_height, batch, out, runs, prev, calls>>

\* the same receipt view and block height are transformed once more
Reprocess(s) ==
    /\ pc[s] = "done"
    /\ runs[s] < MaxRuns
    /\ prev' = [prev EXCEPT ![s] = Some(Rows(out[s]))]
    /\ out' = [out EXCEPT ![s] = EmptyOut]
    /\ runs' = [runs EXCEPT ![s] = @ + 1]
    /\ pc' = [pc EXCEPT ![s] = "receipt"]
    /\ UNCHANGED <<from_u128_impl, block_height, batch, calls>>

\* a caller hands a row builder the id of a receipt of the batch directly
CallFromActionView(s, index, action_view) ==
    /\ Len(calls) < MaxCalls
    /\ calls' = Append(calls,
                   [fn         |-> "ReceiptActionAction::from_action_view",
                    receipt_id |-> batch[s].receipt_id,
                    row        |-> ReceiptActionAction_from_action_view(
                                       batch[s].receipt_id, index, action_view)])
    /\ UNCHANGED <<from_u128_impl, block_height, batch, pc, out, runs, prev>>

CallFromDataId(s, data_id) ==
    /\ Len(calls) < MaxCalls
    /\ calls' = Append(calls,
                   [fn         |-> "ReceiptActionInputData::from_data_id",
                    receipt_id |-> batch[s].receipt_id,
                    row        |-> ReceiptActionInputData_from_data_id(
                                       batch[s].receipt_id, data_id)])
    /\ UNCHANGED <<from_u128_impl, block_height, batch, pc, out, runs, prev>>

CallFromDataReceiver(s, data_receiver) ==
    /\ Len(calls) < MaxCalls
    /\ calls' = Append(calls,
                   [fn         |-> "ReceiptActionOutputData::from_data_receiver",
                    receipt_id |-> batch[s].receipt_id,
                    row        |-> ReceiptActionOutputData_from_data_receiver(
                                       batch[s].receipt_id, data_receiver)])
    /\ UNCHANGED <<from_u128_impl, block_height, batch, pc, out, runs, prev>>

Transform ==
    \/ \E s \in Slots : BuildReceipt(s)
    \/ \E s \in Slots : ExtractData(s)
    \/ \E s \in Slots : ExtractAction(s)
    \/ \E s \in Slots : \E i \in ActionPositions(s) : EncodeAction(s, i)
    \/ \E s \in Slots : ActionsEncoded(s)
    \/ \E s \in Slots : BuildOutputEdge(s)
    \/ \E s \in Slots : OutputEdgesBuilt(s)
    \/ \E s \in Slots : BuildInputEdge(s)
    \/ \E s \in Slots : InputEdgesBuilt(s)

Next ==
    \/ Transform
    \/ \E s \in Slots : Reprocess(s)

NextBatch == Transform

NextCalls ==
    \/ Transform
    \/ \E s \in Slots : CallFromActionView(s, 0, Transfer(MaxLimbs(U128Limbs)))
    \/ \E s \in Slots : \E d \in DataIdSamples : CallFromDataId(s, d)
    \/ \E s \in Slots : \E r \in DataReceiverSamples : CallFromDataReceiver(s, r)

\* one receipt, transformed and transformed again
Spec == Init /\ [][Next]_vars

\* the receipts of a batch, transformed concurrently
SpecBatch == InitBatch /\ [][NextBatch]_vars

\* one receipt, with callers of the row builders beside the pipeline
SpecCalls == InitCalls /\ [][NextCalls]_vars

(***************************************************************************)
(* What a reader of the rows does: a decimal string parsed back into an    *)
(* unsigned 128-bit integer, and the value of a BigDecimal.                *)
(***************************************************************************)
\* v * 10 + c from limb i on: the limbs and the carry out of the top limb
RECURSIVE MulAdd10(_, _, _)
MulAdd10(v, i, c) ==
    IF i > Len(v) THEN [v |-> <<>>, carry |-> c]
    ELSE LET cur  == v[i] * 10 + c
             rest == MulAdd10(v, i + 1, cur \div LimbBase)
         IN  [v |-> <<cur % LimbBase>> \o rest.v, carry |-> rest.carry]

IsDigit(c) == \E d \in 0..9 : DigitChars[d + 1] = c
DigitOf(c) == CHOOSE d \in 0..9 : DigitChars[d + 1] = c

RECURSIVE ParseDecimalFrom(_, _)
ParseDecimalFrom(str, acc) ==
    IF str = "" THEN Some(acc)
    ELSE IF ~IsDigit(Head(str)) THEN None
    ELSE LET m == MulAdd10(acc, 1, DigitOf(Head(str)))
         IN  IF m.carry # 0 THEN None ELSE ParseDecimalFrom(Tail(str), m.v)

\* Some(v) for the decimal expansion of a v < 2^128, None for anything else
ParseDecimal(str) ==
    IF str = "" THEN None ELSE ParseDecimalFrom(str, ZeroLimbs(U128Limbs))

\* no sign, no leading zero, no fraction
IsDecimalExpansion(str) ==
    /\ ParseDecimal(str).some
    /\ (Len(str) > 1 => Head(str) # "0")

\* the BigDecimal d holds exactly the unsigned integer v
HoldsExactly(d, v) ==
    /\ d.scale = 0
    /\ Len(d.int_val) <= Len(v)
    /\ d.int_val \o ZeroLimbs(Len(v) - Len(d.int_val)) = v

IsAction(s) == batch[s].receipt.tag = "Action"
IsData(s) == batch[s].receipt.tag = "Data"

\* the kinds of the Receipt rows that carry receipt_id
ReceiptKinds(receipt_id) ==
    {Receipt_from_receipt_view(batch[s], block_height).receipt_kind :
        s \in {t \in Slots : batch[t].receipt_id = receipt_id}}

(***************************************************************************)
(* C1  For every receipt view exactly one of the two kind-guarded          *)
(* extractions succeeds: ReceiptData::try_from returns a row iff the kind  *)
(* in the Receipt row is Data, ReceiptAction::try_from iff it is Action,   *)
(* and the other one fails with the kind-mismatch error and gives no row.  *)
(***************************************************************************)
C1_ExactlyOneExtraction ==
    \A s \in Slots :
        /\ out[s].data_result.some =>
              LET d == out[s].data_result.v
              IN  /\ d.ok <=> Classified(s) = "Data"
                  /\ d.ok => out[s].receipt_data = <<d.row>>
                  /\ ~d.ok => /\ d = Err("Given ReceiptView is not Data type")
                              /\ out[s].receipt_data = <<>>
        /\ out[s].action_result.some =>
              LET d == out[s].data_result.v
                  a == out[s].action_result.v
              IN  /\ a.ok <=> Classified(s) = "Action"
                  /\ a.ok => out[s].receipt_actions = <<a.row>>
                  /\ ~a.ok => /\ a = Err("Given ReceiptView is not Action type")
                              /\ out[s].receipt_actions = <<>>
                  /\ a.ok # d.ok

\* a Data receipt on which both extractions ran: the Data one gave the row,
\* the Action one the error
C1_Witness ==
    \E s \in Slots :
        /\ IsData(s)
        /\ out[s].action_result.some
        /\ out[s].data_result.v.ok
        /\ ~out[s].action_result.v.ok
        /\ Len(out[s].receipt_data) = 1

(***************************************************************************)
(* C2  As claimed: every row that references a receipt_id agrees with the  *)
(* kind of the Receipt row with that id, and the three row builders cannot *)
(* build a row for a Data-kind receipt.                                    *)
(***************************************************************************)
C2_NoBuilderRowForDataReceipt ==
    /\ \A s \in Slots :
          /\ \A r \in Range(out[s].receipt_data) : ReceiptKinds(r.receipt_id) = {"Data"}
          /\ \A r \in Range(out[s].receipt_actions) \cup Range(out[s].receipt_action_actions)
                        \cup Range(out[s].receipt_action_output_data)
                        \cup Range(out[s].receipt_action_input_data) :
                 ReceiptKinds(r.receipt_id) = {"Action"}
    /\ \A c \in Range(calls) : ReceiptKinds(c.row.receipt_id) = {"Action"}

(***************************************************************************)
(* C2, amended  ReceiptData rows exist only for Data receipts and          *)
(* ReceiptAction rows only for Action receipts (try_from checks the kind); *)
(* the rows the pipeline builds with the three row builders belong to      *)
(* Action receipts, because the pipeline calls them for that kind only;    *)
(* a builder itself checks nothing and returns a row with the receipt_id   *)
(* it was given, so the row agrees with the kind exactly when the caller   *)
(* passed the id of an Action receipt.                                     *)
(***************************************************************************)
C2_RowsAgreeWhenCalledForActionKind ==
    /\ \A s \in Slots :
          /\ \A r \in Range(out[s].receipt_data) : ReceiptKinds(r.receipt_id) = {"Data"}
          /\ \A r \in Range(out[s].receipt_actions) : ReceiptKinds(r.receipt_id) = {"Action"}
          /\ \A r \in Range(out[s].receipt_action_actions)
                        \cup Range(out[s].receipt_action_output_data)
                        \cup Range(out[s].receipt_action_input_data) :
                 /\ r.receipt_id = batch[s].receipt_id
                 /\ ReceiptKinds(r.receipt_id) = {"Action"}
    /\ \A c \in Range(calls) :
          /\ c.row.receipt_id = c.receipt_id
          /\ ReceiptKinds(c.row.receipt_id) = ReceiptKinds(c.receipt_id)

\* a builder was called with the id of a Data receipt and returned a row
\* for it, beside a finished pipeline
C2_Witness ==
    \E s \in Slots :
        /\ IsData(s)
        /\ pc[s] = "done"
        /\ \E c \in Range(calls) :
              /\ c.fn = "ReceiptActionInputData::from_data_id"
              /\ c.row.receipt_id = batch[s].receipt_id

(***************************************************************************)
(* C3  For an Action receipt with n actions the ReceiptActionAction rows   *)
(* carry the indices 0 .. n-1, each once, and the row with index i encodes *)
(* the action at position i, in whatever order the encodings complete.     *)
(***************************************************************************)
C3_IndicesArePositions ==
    \A s \in Slots :
        IsAction(s) =>
            LET rows    == out[s].receipt_action_actions
                actions == batch[s].receipt.actions
            IN  /\ {rows[j].index : j \in DOMAIN rows} = {i - 1 : i \in out[s].encoded}
                /\ Len(rows) = Cardinality(out[s].encoded)
                /\ \A j \in DOMAIN rows :
                      /\ rows[j].receipt_id = batch[s].receipt_id
                      /\ rows[j].action_kind = actions[rows[j].index + 1].tag
                      /\ rows[j].args = ActionKindAndArgs(actions[rows[j].index + 1]).args
                /\ pc[s] \in {"outputs", "inputs", "done"} =>
                      {rows[j].index : j \in DOMAIN rows} = 0..(Len(actions) - 1)

\* two different actions whose encodings completed in the reverse of their
\* positions
C3_Witness ==
    \E s \in Slots :
        /\ IsAction(s)
        /\ pc[s] = "done"
        /\ Len(batch[s].receipt.actions) = 2
        /\ batch[s].receipt.actions[1] # batch[s].receipt.actions[2]
        /\ out[s].receipt_action_actions[1].index = 1
        /\ out[s].receipt_action_actions[2].index = 0

(***************************************************************************)
(* C4  The deposit of a FunctionCall or Transfer action and the stake of a *)
(* Stake action are encoded as a JSON string that is exactly the decimal   *)
(* expansion of the unsigned 128-bit value: parsing it recovers the value, *)
(* and 2^128 - 1 gives "340282366920938463463374607431768211455".          *)
(***************************************************************************)
AmountOf(action_view) ==
    IF action_view.tag = "Stake" THEN action_view.stake ELSE action_view.deposit

AmountField(row) ==
    IF row.action_kind = "Stake" THEN row.args.v.stake ELSE row.args.v.deposit

C4_AmountsAreExactDecimalStrings ==
    \A s \in Slots :
        IsAction(s) =>
            \A r \in Range(out[s].receipt_action_actions) :
                r.action_kind \in {"FunctionCall", "Transfer", "Stake"} =>
                    LET v == AmountOf(batch[s].receipt.actions[r.index + 1])
                    IN  /\ AmountField(r).type = "String"
                        /\ IsDecimalExpansion(AmountField(r).v)
                        /\ ParseDecimal(AmountField(r).v).v = v
                        /\ v = MaxLimbs(U128Limbs) =>
                              AmountField(r).v = "340282366920938463463374607431768211455"

\* a Transfer of 2^128 - 1 has been encoded
C4_Witness ==
    \E s \in Slots :
        /\ IsAction(s)
        /\ \E r \in Range(out[s].receipt_action_actions) :
              /\ r.action_kind = "Transfer"
              /\ batch[s].receipt.actions[r.index + 1].deposit = MaxLimbs(U128Limbs)
              /\ r.args.v.deposit = JsonString("340282366920938463463374607431768211455")

(***************************************************************************)
(* C5  from_action_view maps each of the eight variants to a row whose     *)
(* action_kind is the variant's tag and whose args have the key set fixed  *)
(* by the kind; no two kinds have the same key set.                        *)
(***************************************************************************)
KeySet(action_kind) ==
    CASE action_kind = "CreateAccount"  -> {}
      [] action_kind = "DeployContract" -> {"code"}
      [] action_kind = "FunctionCall"   -> {"method_name", "args", "gas", "deposit"}
      [] action_kind = "Transfer"       -> {"deposit"}
      [] action_kind = "Stake"          -> {"stake", "public_key"}
      [] action_kind = "AddKey"         -> {"public_key", "access_key"}
      [] action_kind = "DeleteKey"      -> {"public_key"}
      [] action_kind = "DeleteAccount"  -> {"beneficiary_id"}

C5_KeySetFixedByKind ==
    \A s \in Slots :
        IsAction(s) =>
            LET rows == Range(out[s].receipt_action_actions)
            IN  /\ \A r \in rows :
                      /\ r.action_kind \in ActionTags
                      /\ r.action_kind = batch[s].receipt.actions[r.index + 1].tag
                      /\ r.args.type = "Object"
                      /\ DOMAIN r.args.v = KeySet(r.action_kind)
                /\ \A r1, r2 \in rows :
                      r1.action_kind # r2.action_kind => DOMAIN r1.args.v # DOMAIN r2.args.v

\* an AddKey and a DeleteKey action, which share a key, both encoded
C5_Witness ==
    \E s \in Slots :
        /\ IsAction(s)
        /\ pc[s] = "done"
        /\ \E r1, r2 \in Range(out[s].receipt_action_actions) :
              /\ r1.action_kind = "AddKey"
              /\ r2.action_kind = "DeleteKey"
              /\ DOMAIN r1.args.v \cap DOMAIN r2.args.v # {}

(***************************************************************************)
(* C6  For an Action receipt ReceiptAction::try_from returns Ok, with a    *)
(* gas_price that holds the receipt's 128-bit gas price exactly, or, when  *)
(* the conversion into BigDecimal fails, with a gas_price of zero.         *)
(***************************************************************************)
C6_GasPriceExactOrZero ==
    \A s \in Slots :
        (IsAction(s) /\ out[s].action_result.some) =>
            LET a == out[s].action_result.v
                v == batch[s].receipt.gas_price
            IN  /\ a.ok
                /\ a.row.receipt_id = batch[s].receipt_id
                /\ BigDecimal_from_u128(v).some => HoldsExactly(a.row.gas_price, v)
                /\ ~BigDecimal_from_u128(v).some =>
                      HoldsExactly(a.row.gas_price, ZeroLimbs(U128Limbs))

\* a gas price of 2^128 - 1 in a build that converts it
C6_Witness ==
    \E s \in Slots :
        /\ IsAction(s)
        /\ out[s].action_result.some
        /\ batch[s].receipt.gas_price = MaxLimbs(U128Limbs)
        /\ from_u128_impl = "native"
        /\ out[s].action_result.v.row.gas_price.int_val = MaxLimbs(U128Limbs)

(***************************************************************************)
(* C7  For an Action receipt with k output data receivers and m input data *)
(* ids there are exactly k ReceiptActionOutputData and m                   *)
(* ReceiptActionInputData rows, all with the receipt's receipt_id, the     *)
(* j-th holding the j-th (data_id, receiver_id) pair or data_id unchanged. *)
(***************************************************************************)
C7_EdgeRowsPreservePairs ==
    \A s \in Slots :
        IsAction(s) =>
            LET outs == out[s].receipt_action_output_data
                ins  == out[s].receipt_action_input_data
                recv == batch[s].receipt.output_data_receivers
                ids  == batch[s].receipt.input_data_ids
            IN  /\ Len(outs) <= Len(recv)
                /\ Len(ins) <= Len(ids)
                /\ pc[s] \in {"inputs", "done"} => Len(outs) = Len(recv)
                /\ pc[s] = "done" => Len(ins) = Len(ids)
                /\ \A j \in DOMAIN outs :
                      /\ outs[j].receipt_id = batch[s].receipt_id
                      /\ outs[j].data_id = recv[j].data_id
                      /\ outs[j].receiver_id = recv[j].receiver_id
                /\ \A j \in DOMAIN ins :
                      /\ ins[j].receipt_id = batch[s].receipt_id
                      /\ ins[j].data_id = ids[j]

\* two receivers that differ in both fields and two different input ids
C7_Witness ==
    \E s \in Slots :
        /\ IsAction(s)
        /\ pc[s] = "done"
        /\ Len(out[s].receipt_action_output_data) = 2
        /\ Len(out[s].receipt_action_input_data) = 2
        /\ out[s].receipt_action_output_data[1].data_id
              # out[s].receipt_action_output_data[2].data_id
        /\ out[s].receipt_action_output_data[1].receiver_id
              # out[s].receipt_action_output_data[2].receiver_id
        /\ out[s].receipt_action_input_data[1].data_id
              # out[s].receipt_action_input_data[2].data_id

(***************************************************************************)
(* C8  When the receipts of a batch are transformed concurrently, the rows *)
(* of each receipt are those its own contents and the block height give:   *)
(* every interleaving ends with the same rows.                             *)
(***************************************************************************)
\* the rows of one receipt, from the receipt and the height alone
RowsOf(receipt_view, height) ==
    LET d == ReceiptData_try_from(receipt_view)
        a == ReceiptAction_try_from(receipt_view)
        isAction == receipt_view.receipt.tag = "Action"
    IN  [receipts        |-> <<Receipt_from_receipt_view(receipt_view, height)>>,
         receipt_data    |-> IF d.ok THEN <<d.row>> ELSE <<>>,
         receipt_actions |-> IF a.ok THEN <<a.row>> ELSE <<>>,
         receipt_action_actions |->
             IF isAction
             THEN {ReceiptActionAction_from_action_view(
                       receipt_view.receipt_id, i - 1, receipt_view.receipt.actions[i]) :
                     i \in DOMAIN receipt_view.receipt.actions}
             ELSE {},
         receipt_action_output_data |->
             IF isAction
             THEN [j \in DOMAIN receipt_view.receipt.output_data_receivers |->
                     ReceiptActionOutputData_from_data_receiver(
                         receipt_view.receipt_id,
                         receipt_view.receipt.output_data_receivers[j])]
             ELSE <<>>,
         receipt_action_input_data |->
             IF isAction
             THEN [j \in DOMAIN receipt_view.receipt.input_data_ids |->
                     ReceiptActionInputData_from_data_id(
                         receipt_view.receipt_id, receipt_view.receipt.input_data_ids[j])]
             ELSE <<>>,
         data_result   |-> Some(d),
         action_result |-> Some(a)]

C8_RowsIndependentOfInterleaving ==
    \A s \in Slots :
        /\ Range(out[s].receipt_action_actions)
              \subseteq RowsOf(batch[s], block_height).receipt_action_actions
        /\ pc[s] = "done" => Rows(out[s]) = RowsOf(batch[s], block_height)

\* two Action receipts of one batch, both finished, the first with its
\* encodings completed in reverse
C8_Witness ==
    \E s, t \in Slots :
        /\ s # t
        /\ \A u \in Slots : pc[u] = "done"
        /\ IsAction(s) /\ IsAction(t)
        /\ Len(out[s].receipt_action_actions) = 2
        /\ Len(out[t].receipt_action_actions) = 2
        /\ out[s].receipt_action_actions[1].index = 1

(***************************************************************************)
(* C9  Running the transformation again on the same receipt view and       *)
(* block height gives the same rows and the same outcomes of the two       *)
(* extractions.                                                            *)
(***************************************************************************)
C9_RerunGivesSameRows ==
    \A s \in Slots :
        (prev[s].some /\ pc[s] = "done") => Rows(out[s]) = prev[s].v

\* a second run of an Action receipt with two different actions, finished
C9_Witness ==
    \E s \in Slots :
        /\ runs[s] = 2
        /\ pc[s] = "done"
        /\ prev[s].some
        /\ IsAction(s)
        /\ Len(out[s].receipt_action_actions) = 2
        /\ out[s].receipt_action_actions[1].args # out[s].receipt_action_actions[2].args

(***************************************************************************)
(* C10  For a Data receipt ReceiptData::try_from returns a row with the    *)
(* receipt's receipt_id and data_id and with the optional payload as it    *)
(* was: absent stays absent, present stays present with the same bytes,    *)
(* an empty payload included.                                              *)
(***************************************************************************)
C10_DataPayloadPreserved ==
    \A s \in Slots :
        (IsData(s) /\ out[s].data_result.some) =>
            LET d == out[s].data_result.v
            IN  /\ d.ok
                /\ d.row.receipt_id = batch[s].receipt_id
                /\ d.row.data_id = batch[s].receipt.data_id
                /\ d.row.data.some <=> batch[s].receipt.data.some
                /\ d.row.data.some => d.row.data.v = batch[s].receipt.data.v

\* a payload that is present and empty
C10_Witness ==
    \E s \in Slots :
        /\ IsData(s)
        /\ out[s].data_result.some
        /\ batch[s].receipt.data = Some(<<>>)
        /\ out[s].data_result.v.row.data.some
        /\ out[s].data_result.v.row.data.v = <<>>

====
